---- MODULE Spec2Model ----
(***************************************************************************)
(* WiFi geolocation backend (src/backend/main.py): the frame decoder, the  *)
(* fingerprint store and AP directory built by load_database, the RSSI     *)
(* matcher, the triangulation fallback, the arbiter locate_position and    *)
(* the MQTT callback on_message.                                           *)
(*                                                                         *)
(* Text is modelled as a sequence of one-character strings, so that        *)
(* formatting, lower-casing, joining and splitting are computed character  *)
(* by character. A Python call is modelled by its outcome, a record        *)
(* [raised, ret]: raised = TRUE stands for an exception leaving the call.  *)
(* Numbers are rationals, pairs <<numerator, denominator>> with a positive *)
(* denominator, compared by cross multiplication. The means of the REAL    *)
(* columns lat and lon are rounded as float arithmetic rounds them, after  *)
(* every addition and after the division; the arithmetic on the INTEGER    *)
(* column rssi is exact.                                                   *)
(***************************************************************************)
EXTENDS Integers, Sequences, FiniteSets, TLC

VARIABLES
    db,                     \* the rows of table fingerprints in geolocation.db
    fingerprint_data,       \* main.py:48
    ap_database,            \* main.py:47, a function from MAC text to an entry
    current_position,       \* main.py:49
    websocket_connections,  \* main.py:50
    mqtt_started,           \* startup() has run: the paho thread delivers uplinks
    now,                    \* the clock datetime.now() reads
    loads,                  \* number of load_database calls made so far
    last_load,              \* what the most recent load_database call did
    ws_open,                \* the WebSocket clients whose endpoint is running
    sent,                   \* results handed to WebSocket connections so far
    last_msg,               \* what the most recent on_message call did
    call,                   \* the most recent direct call of a function
    collector               \* tools/auto_collect_TTN.py: its globals and threads

vars == <<db, fingerprint_data, ap_database, current_position,
          websocket_connections, ws_open, mqtt_started, now, loads, last_load,
          sent, last_msg, call, collector>>

\* A value that may be None (Python) or NULL (SQL) is boxed: None is the empty
\* tuple and Some(v) the one-element tuple of v.
None == <<>>
Some(v) == <<v>>

Ok(v) == [raised |-> FALSE, ret |-> v]
Raise == [raised |-> TRUE, ret |-> None]

(***************************************************************************)
(* Text                                                                    *)
(***************************************************************************)
HexDigits == <<"0","1","2","3","4","5","6","7","8","9","a","b","c","d","e","f">>

UpperChars == <<"A","B","C","D","E","F","G","H","I","J","K","L","M",
                "N","O","P","Q","R","S","T","U","V","W","X","Y","Z">>

LowerChars == <<"a","b","c","d","e","f","g","h","i","j","k","l","m",
                "n","o","p","q","r","s","t","u","v","w","x","y","z">>

\* str.lower() on one character
LowerChar(c) ==
    IF \E i \in 1..Len(UpperChars) : UpperChars[i] = c
    THEN LowerChars[CHOOSE i \in 1..Len(UpperChars) : UpperChars[i] = c]
    ELSE c

\* str.lower()
Lower(s) == [i \in 1..Len(s) |-> LowerChar(s[i])]

\* f'{b:02x}'
Hex2(b) == <<HexDigits[(b \div 16) + 1], HexDigits[(b % 16) + 1]>>

\* ':'.join(f'{b:02x}' for b in mac_bytes)
RECURSIVE JoinHex(_)
JoinHex(bytes) ==
    IF Len(bytes) = 0 THEN <<>>
    ELSE IF Len(bytes) = 1 THEN Hex2(bytes[1])
    ELSE Hex2(bytes[1]) \o <<":">> \o JoinHex(Tail(bytes))

ZeroMac == <<"0","0",":","0","0",":","0","0",":","0","0",":","0","0",":","0","0">>

(***************************************************************************)
(* Base64. A Base64 text is a sequence of symbols: 0..63 is a character of *)
(* the alphabet (its 6-bit value), PadSym is '=', JunkSym an ASCII         *)
(* character outside the alphabet, NonAsciiSym a non-ASCII character.      *)
(***************************************************************************)
PadSym == 64
JunkSym == 65
NonAsciiSym == 66

\* The Base64 text TTN puts in frm_payload for a frame of bytes.
RECURSIVE B64Encode(_)
B64Encode(bytes) ==
    IF Len(bytes) = 0 THEN <<>>
    ELSE IF Len(bytes) = 1 THEN
        <<bytes[1] \div 4, (bytes[1] % 4) * 16, PadSym, PadSym>>
    ELSE IF Len(bytes) = 2 THEN
        <<bytes[1] \div 4, (bytes[1] % 4) * 16 + bytes[2] \div 16,
          (bytes[2] % 16) * 4, PadSym>>
    ELSE
        <<bytes[1] \div 4, (bytes[1] % 4) * 16 + bytes[2] \div 16,
          (bytes[2] % 16) * 4 + bytes[3] \div 64, bytes[3] % 64>>
        \o B64Encode(SubSeq(bytes, 4, Len(bytes)))

\* binascii.a2b_base64 without strict mode: characters outside the alphabet are
\* skipped, a pad that completes a quad ends the data, and data that stops inside
\* a quad raises binascii.Error.
RECURSIVE a2b_base64(_, _, _, _, _, _)
a2b_base64(s, i, quad_pos, leftchar, pads, out) ==
    IF i > Len(s) THEN (IF quad_pos # 0 THEN Raise ELSE Ok(out))
    ELSE IF s[i] = PadSym THEN
        IF quad_pos >= 2 /\ quad_pos + pads + 1 >= 4 THEN Ok(out)
        ELSE a2b_base64(s, i + 1, quad_pos, leftchar,
                        IF quad_pos >= 2 THEN pads + 1 ELSE pads, out)
    ELSE IF s[i] >= 64 THEN a2b_base64(s, i + 1, quad_pos, leftchar, pads, out)
    ELSE IF quad_pos = 0 THEN a2b_base64(s, i + 1, 1, s[i], 0, out)
    ELSE IF quad_pos = 1 THEN
        a2b_base64(s, i + 1, 2, s[i] % 16, 0,
                   Append(out, leftchar * 4 + s[i] \div 16))
    ELSE IF quad_pos = 2 THEN
        a2b_base64(s, i + 1, 3, s[i] % 4, 0,
                   Append(out, leftchar * 16 + s[i] \div 4))
    ELSE a2b_base64(s, i + 1, 0, 0, 0, Append(out, leftchar * 64 + s[i]))

\* base64.b64decode(b64_payload): None raises TypeError, text with a non-ASCII
\* character raises ValueError.
b64decode(payload) ==
    IF payload = None THEN Raise
    ELSE IF \E i \in 1..Len(payload[1]) : payload[1][i] = NonAsciiSym THEN Raise
    ELSE a2b_base64(payload[1], 1, 0, 0, 0, <<>>)

(***************************************************************************)
(* decode_payload                                                          *)
(***************************************************************************)
\* The RSSI byte read as unsigned.
UnsignedByte(rssi_byte) == rssi_byte

\* rssi_byte if rssi_byte < 128 else rssi_byte - 256
SignedByte(rssi_byte) == IF rssi_byte < 128 THEN rssi_byte ELSE rssi_byte - 256

\* The loop of decode_payload over the blocks i .. num_aps - 1 of buf.
RECURSIVE decode_blocks(_, _, _)
decode_blocks(buf, i, num_aps) ==
    IF i >= num_aps THEN <<>>
    ELSE LET offset == i * 7
             mac_bytes == SubSeq(buf, offset + 1, offset + 6)
             rssi_byte == buf[offset + 6 + 1]
             rssi == SignedByte(rssi_byte)
             mac == JoinHex(mac_bytes)
         IN (IF mac # ZeroMac THEN <<[mac |-> mac, rssi |-> rssi]>> ELSE <<>>)
            \o decode_blocks(buf, i + 1, num_aps)

\* The body of decode_payload's try block.
decode_payload_try(b64_payload) ==
    LET buf == b64decode(b64_payload)
    IN IF buf.raised THEN Raise
       ELSE IF Len(buf.ret) % 7 # 0 THEN Ok(<<>>)
       ELSE Ok(decode_blocks(buf.ret, 0, Len(buf.ret) \div 7))

\* decode_payload without its length check and without its except clause.
decode_payload_unguarded(b64_payload) ==
    LET buf == b64decode(b64_payload)
    IN IF buf.raised THEN Raise
       ELSE Ok(decode_blocks(buf.ret, 0, Len(buf.ret) \div 7))

\* decode_payload: any exception of the try block becomes the empty list.
decode_payload(b64_payload) ==
    LET r == decode_payload_try(b64_payload)
    IN IF r.raised THEN Ok(<<>>) ELSE r

\* The collector's decoder had it the backend's length check.
collector_decode_payload_checked(b64_payload) ==
    LET buf == b64decode(b64_payload)
    IN IF buf.raised THEN Raise
       ELSE IF Len(buf.ret) % 7 # 0 THEN Ok(<<>>)
       ELSE Ok(decode_blocks(buf.ret, 0, Len(buf.ret) \div 7))

\* decode_payload of tools/auto_collect_TTN.py: the same loop with no length
\* check and no try block.
collector_decode_payload(b64_payload) ==
    LET buf == b64decode(b64_payload)
    IN IF buf.raised THEN Raise
       ELSE Ok(decode_blocks(buf.ret, 0, Len(buf.ret) \div 7))

(***************************************************************************)
(* Python values                                                           *)
(***************************************************************************)
\* s.split('_'): the pieces of s between the underscores, cur being the piece
\* under construction.
RECURSIVE SplitFrom(_, _, _)
SplitFrom(s, i, cur) ==
    IF i > Len(s) THEN <<cur>>
    ELSE IF s[i] = "_" THEN <<cur>> \o SplitFrom(s, i + 1, <<>>)
    ELSE SplitFrom(s, i + 1, Append(cur, s[i]))

Split(s) == SplitFrom(s, 1, <<>>)

\* room, floor = room_key.split('_'): ValueError unless there are two pieces.
split_room_key(room_key) ==
    LET parts == Split(room_key)
    IN IF Len(parts) = 2 THEN Ok([room |-> parts[1], floor |-> parts[2]])
       ELSE Raise

RECURSIVE Gcd(_, _)
Gcd(a, b) == IF b = 0 THEN a ELSE Gcd(b, a % b)

Abs(x) == IF x < 0 THEN -x ELSE x

\* The number n/d in lowest terms, d > 0.
Rat(n, d) ==
    LET g == Gcd(Abs(n), Abs(d))
        sgn == IF d < 0 THEN -1 ELSE 1
    IN <<sgn * (n \div g), sgn * (d \div g)>>

RatInt(n) == <<n, 1>>
RatAdd(a, b) == Rat(a[1] * b[2] + b[1] * a[2], a[2] * b[2])
RatSub(a, b) == Rat(a[1] * b[2] - b[1] * a[2], a[2] * b[2])
RatMul(a, b) == Rat(a[1] * b[1], a[2] * b[2])
RatDiv(a, b) == Rat(a[1] * b[2], a[2] * b[1])
RatAbs(a) == <<Abs(a[1]), a[2]>>
RatLess(a, b) == a[1] * b[2] < b[1] * a[2]
RatMin(a, b) == IF RatLess(b, a) THEN b ELSE a

RECURSIVE SumSeq(_)
SumSeq(s) == IF Len(s) = 0 THEN 0 ELSE s[1] + SumSeq(Tail(s))

\* sum(values) / len(values) on the integers of column rssi: TypeError when a
\* value is None.
py_mean(values) ==
    IF \E i \in 1..Len(values) : values[i] = None THEN Raise
    ELSE Ok(Rat(SumSeq([i \in 1..Len(values) |-> values[i][1]]), Len(values)))

\* The integer nearest to the rational r, a half going to the even neighbour.
RoundHalfEven(r) ==
    LET q == r[1] \div r[2]
        rem == r[1] - q * r[2]
    IN IF 2 * rem < r[2] THEN q
       ELSE IF 2 * rem > r[2] THEN q + 1
       ELSE IF q % 2 = 0 THEN q ELSE q + 1

\* Python floats: binary floating point, every operation rounded to the nearest
\* value of FloatBits significant bits, a tie to the even one (53 bits in
\* CPython; the exponent range is not reached).
FloatBits == 3

RECURSIVE Pow2(_)
Pow2(k) == IF k = 0 THEN 1 ELSE 2 * Pow2(k - 1)

\* The pair <<m, e>> with x = m * 2^e and 2^(FloatBits-1) <= m < 2^FloatBits,
\* for a rational x > 0.
RECURSIVE FloatScale(_, _)
FloatScale(x, e) ==
    IF ~RatLess(x, RatInt(Pow2(FloatBits))) THEN
        FloatScale(RatDiv(x, RatInt(2)), e + 1)
    ELSE IF RatLess(x, RatInt(Pow2(FloatBits - 1))) THEN
        FloatScale(RatMul(x, RatInt(2)), e - 1)
    ELSE <<x, e>>

\* The float nearest to the rational x.
RoundFloat(x) ==
    IF x[1] = 0 THEN x
    ELSE LET s == FloatScale(RatAbs(x), 0)
             m == RoundHalfEven(s[1])
             sgn == IF x[1] < 0 THEN -1 ELSE 1
         IN IF s[2] >= 0 THEN Rat(sgn * m * Pow2(s[2]), 1)
            ELSE Rat(sgn * m, Pow2(-s[2]))

\* sum(values), the values floats of a REAL column: the additions from left to
\* right, each rounded.
RECURSIVE float_sum(_, _, _)
float_sum(values, i, acc) ==
    IF i > Len(values) THEN acc
    ELSE float_sum(values, i + 1, RoundFloat(RatAdd(acc, RatInt(values[i][1]))))

\* sum(values) / len(values) on floats: TypeError when a value is None.
py_mean_float(values) ==
    IF \E i \in 1..Len(values) : values[i] = None THEN Raise
    ELSE Ok(RoundFloat(RatDiv(float_sum(values, 1, RatInt(0)),
                              RatInt(Len(values)))))

\* The values f(x) of the elements x of s, in order.
MapSeq(s, f(_)) == [i \in 1..Len(s) |-> f(s[i])]

\* The elements of s without repetition, in order of first appearance (the key
\* order of a dict filled by iterating s).
RECURSIVE FirstSeen(_, _)
FirstSeen(s, seen) ==
    IF Len(s) = 0 THEN <<>>
    ELSE IF s[1] \in seen THEN FirstSeen(Tail(s), seen)
    ELSE <<s[1]>> \o FirstSeen(Tail(s), seen \cup {s[1]})

Range(s) == {s[i] : i \in 1..Len(s)}

(***************************************************************************)
(* load_database                                                           *)
(***************************************************************************)
\* key = f"{fp['room']}_{fp['floor']}"
RoomKey(fp) == fp.room \o <<"_">> \o fp.floor

\* Step 1, the rows i.. of the table: each row is appended to fingerprint_data;
\* row[6].lower() raises AttributeError on a NULL mac, leaving the rows appended
\* so far.
RECURSIVE append_rows(_, _, _)
append_rows(rows, i, data) ==
    IF i > Len(rows) THEN [raised |-> FALSE, data |-> data]
    ELSE IF rows[i].mac = None THEN [raised |-> TRUE, data |-> data]
    ELSE append_rows(rows, i + 1,
                     Append(data, [room |-> rows[i].room,
                                   floor |-> rows[i].floor,
                                   location |-> rows[i].location,
                                   lat |-> rows[i].lat,
                                   lon |-> rows[i].lon,
                                   mac |-> Lower(rows[i].mac[1]),
                                   rssi |-> rows[i].rssi]))

\* rooms_data[key] keeping only the AP of the zone's first sample.
load_rooms_data_first_mac(data, key) ==
    LET member == SelectSeq(data, LAMBDA fp : RoomKey(fp) = key)
    IN [macs |-> {member[1].mac},
        lat |-> MapSeq(member, LAMBDA fp : fp.lat),
        lon |-> MapSeq(member, LAMBDA fp : fp.lon),
        location |-> member[Len(member)].location,
        floor |-> member[Len(member)].floor]

\* Step 2: rooms_data[key] of load_database for the samples data.
load_rooms_data(data, key) ==
    LET member == SelectSeq(data, LAMBDA fp : RoomKey(fp) = key)
    IN [macs |-> {member[i].mac : i \in 1..Len(member)},
        lat |-> MapSeq(member, LAMBDA fp : fp.lat),
        lon |-> MapSeq(member, LAMBDA fp : fp.lon),
        location |-> member[Len(member)].location,
        floor |-> member[Len(member)].floor]

\* Step 3, for the zones i.. of keys: an AP absent from the directory gets the
\* zone's mean position and labels; a key that does not split in two, or a NULL
\* coordinate, raises and leaves the directory as built so far.
RECURSIVE build_directory(_, _, _, _)
build_directory(data, keys, i, dir) ==
    IF i > Len(keys) THEN [raised |-> FALSE, dir |-> dir]
    ELSE
        LET zone == load_rooms_data(data, keys[i])
            rf == split_room_key(keys[i])
            avg_lat == py_mean_float(zone.lat)
            avg_lon == py_mean_float(zone.lon)
        IN IF rf.raised \/ avg_lat.raised \/ avg_lon.raised
           THEN [raised |-> TRUE, dir |-> dir]
           ELSE build_directory(data, keys, i + 1,
                    [mac \in (DOMAIN dir) \cup zone.macs |->
                        IF mac \in DOMAIN dir THEN dir[mac]
                        ELSE [ssid |-> "Unknown",
                              lat |-> avg_lat.ret,
                              lon |-> avg_lon.ret,
                              location |-> zone.location,
                              floor |-> rf.ret.floor,
                              room |-> rf.ret.room]])

\* load_database on table (None: there is no table fingerprints, the SELECT
\* raises): the globals it leaves, and whether its except clause ran.
load_database_run(table, data, dir) ==
    IF table = None THEN [raised |-> TRUE, data |-> data, dir |-> dir]
    ELSE
        LET s1 == append_rows(table[1], 1, data)
            keys == FirstSeen(MapSeq(s1.data, RoomKey), {})
            s3 == build_directory(s1.data, keys, 1, dir)
        IN IF s1.raised THEN [raised |-> TRUE, data |-> s1.data, dir |-> dir]
           ELSE [raised |-> s3.raised, data |-> s1.data, dir |-> s3.dir]

(***************************************************************************)
(* simple_rssi_matching                                                    *)
(***************************************************************************)
\* detected_macs = {ap['mac'].lower(): ap['rssi'] for ap in aps}: for an AP
\* reported several times the last report stays.
IsDetected(aps, mac) == \E i \in 1..Len(aps) : Lower(aps[i].mac) = mac

\* detected_macs[mac] had the dict kept the first RSSI reported for an AP.
DetectedRssi_first(aps, mac) ==
    LET first == CHOOSE i \in 1..Len(aps) :
                     /\ Lower(aps[i].mac) = mac
                     /\ \A j \in 1..(i - 1) : Lower(aps[j].mac) # mac
    IN aps[first].rssi

DetectedRssi(aps, mac) ==
    LET last == CHOOSE i \in 1..Len(aps) :
                    /\ Lower(aps[i].mac) = mac
                    /\ \A j \in (i + 1)..Len(aps) : Lower(aps[j].mac) # mac
    IN aps[last].rssi

\* rooms_data[key] of simple_rssi_matching: the samples of the zone, its APs in
\* first-seen order with their recorded RSSI lists, its coordinates and labels.
match_rooms_data(data, key) ==
    LET member == SelectSeq(data, LAMBDA fp : RoomKey(fp) = key)
    IN [macs |-> FirstSeen(MapSeq(member, LAMBDA fp : fp.mac), {}),
        rssi_by_mac |->
            [mac \in {member[i].mac : i \in 1..Len(member)} |->
                MapSeq(SelectSeq(member, LAMBDA fp : fp.mac = mac),
                       LAMBDA fp : fp.rssi)],
        lat |-> MapSeq(member, LAMBDA fp : fp.lat),
        lon |-> MapSeq(member, LAMBDA fp : fp.lon),
        location |-> member[Len(member)].location,
        floor |-> member[Len(member)].floor]

\* The inner loop with the signed difference detected - mean recorded in place
\* of the absolute one.
RECURSIVE zone_score_signed(_, _, _, _, _)
zone_score_signed(aps, zone, i, score, matches) ==
    IF i > Len(zone.macs) THEN
        [raised |-> FALSE, score |-> score, matches |-> matches]
    ELSE IF ~IsDetected(aps, zone.macs[i]) THEN
        zone_score_signed(aps, zone, i + 1, score, matches)
    ELSE
        LET avg_rssi == py_mean(zone.rssi_by_mac[zone.macs[i]])
        IN IF avg_rssi.raised THEN
               [raised |-> TRUE, score |-> score, matches |-> matches]
           ELSE
               LET diff == RatSub(RatInt(DetectedRssi(aps, zone.macs[i])),
                                  avg_rssi.ret)
               IN zone_score_signed(aps, zone, i + 1,
                                    RatAdd(score, RatSub(RatInt(100), diff)),
                                    matches + 1)

\* The inner loop with a penalty of 5 for an AP of the zone that was not
\* detected.
RECURSIVE zone_score_penalty(_, _, _, _, _)
zone_score_penalty(aps, zone, i, score, matches) ==
    IF i > Len(zone.macs) THEN
        [raised |-> FALSE, score |-> score, matches |-> matches]
    ELSE IF ~IsDetected(aps, zone.macs[i]) THEN
        zone_score_penalty(aps, zone, i + 1, RatSub(score, RatInt(5)), matches)
    ELSE
        LET avg_rssi == py_mean(zone.rssi_by_mac[zone.macs[i]])
        IN IF avg_rssi.raised THEN
               [raised |-> TRUE, score |-> score, matches |-> matches]
           ELSE
               LET diff == RatAbs(RatSub(RatInt(DetectedRssi(aps, zone.macs[i])),
                                         avg_rssi.ret))
               IN zone_score_penalty(aps, zone, i + 1,
                                     RatAdd(score, RatSub(RatInt(100), diff)),
                                     matches + 1)

\* The inner loop over the zone's APs i..: score += 100 - |detected - mean
\* recorded| for every AP of the zone that was detected. A NULL recorded RSSI
\* makes the mean raise TypeError.
RECURSIVE zone_score(_, _, _, _, _)
zone_score(aps, zone, i, score, matches) ==
    IF i > Len(zone.macs) THEN
        [raised |-> FALSE, score |-> score, matches |-> matches]
    ELSE IF ~IsDetected(aps, zone.macs[i]) THEN
        zone_score(aps, zone, i + 1, score, matches)
    ELSE
        LET avg_rssi == py_mean(zone.rssi_by_mac[zone.macs[i]])
        IN IF avg_rssi.raised THEN
               [raised |-> TRUE, score |-> score, matches |-> matches]
           ELSE
               LET diff == RatAbs(RatSub(RatInt(DetectedRssi(aps, zone.macs[i])),
                                         avg_rssi.ret))
               IN zone_score(aps, zone, i + 1,
                             RatAdd(score, RatSub(RatInt(100), diff)),
                             matches + 1)

\* The dict built for a zone that becomes the best match.
best_match_of(key, zone, score, matches) ==
    LET rf == split_room_key(key)
        lat == py_mean_float(zone.lat)
        lon == py_mean_float(zone.lon)
    IN IF rf.raised \/ lat.raised \/ lon.raised THEN Raise
       ELSE Ok([room |-> rf.ret.room,
                floor |-> rf.ret.floor,
                lat |-> lat.ret,
                lon |-> lon.ret,
                location |-> zone.location,
                confidence |-> RatMin(RatDiv(score, RatInt(100)), RatInt(1)),
                matched_aps |-> matches])

\* A zone is scored with two matched APs or more only.
Eligible_two(matches) == matches > 1

\* if matches > 0
Eligible(matches) == matches > 0

\* The zone's score left as the sum of its per-AP scores.
final_score_sum(score, matches) == score

\* score = score / matches
final_score(score, matches) == RatDiv(score, RatInt(matches))

\* A zone replaces the best one on an equal score too.
Improves_or_equal(score, best_score) ==
    best_score = None \/ ~RatLess(score, best_score[1])

\* A zone replaces the best one when its score is strictly greater; best_score
\* None stands for the initial -inf.
Improves(score, best_score) ==
    best_score = None \/ RatLess(best_score[1], score)

\* The outer loop over the zones i..: the outcome is the best match (None when no
\* zone matched an AP), or an exception.
RECURSIVE match_zones(_, _, _, _, _, _)
match_zones(aps, data, keys, i, best_match, best_score) ==
    IF i > Len(keys) THEN Ok(best_match)
    ELSE
        LET zone == match_rooms_data(data, keys[i])
            z == zone_score(aps, zone, 1, RatInt(0), 0)
            score == final_score(z.score, z.matches)
            bm == best_match_of(keys[i], zone, score, z.matches)
        IN IF z.raised THEN Raise
           ELSE IF Eligible(z.matches) /\ Improves(score, best_score) THEN
               IF bm.raised THEN Raise
               ELSE match_zones(aps, data, keys, i + 1, Some(bm.ret), Some(score))
           ELSE match_zones(aps, data, keys, i + 1, best_match, best_score)

simple_rssi_matching(aps, data) ==
    match_zones(aps, data, FirstSeen(MapSeq(data, RoomKey), {}), 1, None, None)

(***************************************************************************)
(* triangulate and locate_room                                             *)
(***************************************************************************)
\* weight = 2 / rssi_to_distance(rssi) ** 0.65 with rssi_to_distance(rssi) =
\* 10 ** ((-40 - rssi) / 27), in thousandths rounded to the nearest (at least 1),
\* for rssi = -128 .. 127.
WeightTable == <<
    15, 16, 17, 18, 19, 20, 21, 22,
    24, 25, 27, 28, 30, 31, 33, 35,
    37, 39, 41, 44, 46, 49, 52, 54,
    58, 61, 64, 68, 72, 76, 80, 85,
    90, 95, 100, 106, 112, 118, 125, 132,
    140, 148, 156, 165, 174, 184, 195, 206,
    218, 230, 243, 257, 272, 287, 304, 321,
    339, 359, 379, 401, 424, 448, 473, 500,
    529, 559, 591, 624, 660, 698, 737, 779,
    824, 871, 920, 973, 1028, 1087, 1149, 1214,
    1284, 1357, 1434, 1516, 1602, 1694, 1790, 1892,
    2000, 2114, 2234, 2362, 2496, 2639, 2789, 2948,
    3116, 3294, 3482, 3680, 3890, 4111, 4346, 4593,
    4855, 5132, 5425, 5734, 6061, 6406, 6771, 7157,
    7565, 7996, 8452, 8934, 9443, 9981, 10550, 11151,
    11787, 12459, 13169, 13919, 14713, 15551, 16438, 17375,
    18365, 19412, 20518, 21688, 22924, 24231, 25612, 27071,
    28614, 30245, 31969, 33792, 35718, 37753, 39905, 42180,
    44584, 47125, 49811, 52650, 55651, 58823, 62176, 65720,
    69466, 73425, 77610, 82034, 86710, 91652, 96876, 102397,
    108234, 114403, 120924, 127816, 135101, 142802, 150941, 159545,
    168638, 178250, 188410, 199149, 210500, 222498, 235180, 248585,
    262754, 277730, 293560, 310292, 327978, 346672, 366432, 387317,
    409394, 432728, 457393, 483463, 511019, 540146, 570934, 603475,
    637872, 674230, 712659, 753279, 796214, 841597, 889566, 940269,
    993862, 1050510, 1110387, 1173677, 1240574, 1311284, 1386024, 1465024,
    1548527, 1636790, 1730083, 1828694, 1932926, 2043098, 2159550, 2282640,
    2412745, 2550266, 2695626, 2849271, 3011673, 3183331, 3364774, 3556559,
    3759275, 3973545, 4200028, 4439421, 4692458, 4959917, 5242622, 5541439,
    5857289, 6191142, 6544023, 6917018, 7311272, 7727999, 8168477, 8634062,
    9126185, 9646357, 10196178, 10777337, 11391622, 12040919, 12727224, 13452648,
    14219419, 15029894, 15886565, 16792064, 17749174, 18760837, 19830163, 20960439 >>

WeightMilli(rssi) == WeightTable[rssi + 129]

\* ap_database.get(mac_lower)
DirGet(dir, mac) == IF mac \in DOMAIN dir THEN Some(dir[mac]) ELSE None

\* The loop of triangulate with every weight 1: the plain centroid.
RECURSIVE triangulate_loop_unweighted(_, _, _, _)
triangulate_loop_unweighted(aps, dir, i, acc) ==
    IF i > Len(aps) THEN acc
    ELSE
        LET known == DirGet(dir, Lower(aps[i].mac))
        IN IF known # None THEN
               triangulate_loop_unweighted(aps, dir, i + 1,
                   [numerateur_x |-> RatAdd(acc.numerateur_x, known[1].lat),
                    numerateur_y |-> RatAdd(acc.numerateur_y, known[1].lon),
                    denominateur |-> RatAdd(acc.denominateur, RatInt(1)),
                    matched |-> acc.matched + 1,
                    matched_details |->
                        Append(acc.matched_details,
                               [mac |-> aps[i].mac, ssid |-> known[1].ssid,
                                rssi |-> aps[i].rssi])])
           ELSE triangulate_loop_unweighted(aps, dir, i + 1, acc)

\* The loop of triangulate over the observations i..
RECURSIVE triangulate_loop(_, _, _, _)
triangulate_loop(aps, dir, i, acc) ==
    IF i > Len(aps) THEN acc
    ELSE
        LET known == DirGet(dir, Lower(aps[i].mac))
            weight == RatInt(WeightMilli(aps[i].rssi))
        IN IF known # None THEN
               triangulate_loop(aps, dir, i + 1,
                   [numerateur_x |-> RatAdd(acc.numerateur_x,
                                            RatMul(known[1].lat, weight)),
                    numerateur_y |-> RatAdd(acc.numerateur_y,
                                            RatMul(known[1].lon, weight)),
                    denominateur |-> RatAdd(acc.denominateur, weight),
                    matched |-> acc.matched + 1,
                    matched_details |->
                        Append(acc.matched_details,
                               [mac |-> aps[i].mac, ssid |-> known[1].ssid,
                                rssi |-> aps[i].rssi])])
           ELSE triangulate_loop(aps, dir, i + 1, acc)

\* triangulate: the weighted centroid, or None when the weight sum is 0. The
\* distance text of a detail is left out.
triangulate(aps, dir) ==
    LET acc == triangulate_loop(aps, dir, 1,
                   [numerateur_x |-> RatInt(0), numerateur_y |-> RatInt(0),
                    denominateur |-> RatInt(0), matched |-> 0,
                    matched_details |-> <<>>])
    IN IF RatLess(RatInt(0), acc.denominateur) THEN
           Some([success |-> TRUE,
                 lat |-> RatDiv(acc.numerateur_x, acc.denominateur),
                 lon |-> RatDiv(acc.numerateur_y, acc.denominateur),
                 matched_aps |-> acc.matched,
                 details |-> acc.matched_details])
       ELSE None

\* The loop of locate_room over the observations i..
RECURSIVE locate_room_loop(_, _, _, _, _)
locate_room_loop(aps, dir, i, best_match, best_rssi) ==
    IF i > Len(aps) THEN [best_match |-> best_match, best_rssi |-> best_rssi]
    ELSE
        LET known == DirGet(dir, Lower(aps[i].mac))
        IN IF known # None /\ aps[i].rssi > best_rssi
           THEN locate_room_loop(aps, dir, i + 1, known, aps[i].rssi)
           ELSE locate_room_loop(aps, dir, i + 1, best_match, best_rssi)

locate_room(aps, dir) ==
    LET r == locate_room_loop(aps, dir, 1, None, -100)
    IN IF r.best_match # None THEN
           [room |-> r.best_match[1].room,
            floor |-> r.best_match[1].floor,
            location |-> r.best_match[1].location,
            rssi |-> r.best_rssi,
            confidence |-> IF r.best_rssi > -50 THEN "Haute"
                           ELSE IF r.best_rssi > -70 THEN "Moyenne"
                           ELSE "Faible"]
       ELSE
           [room |-> <<"U","n","k","n","o","w","n">>,
            floor |-> <<"?">>,
            location |-> <<"P","o","s","i","t","i","o","n"," ","n","o","n"," ",
                           "d","e","t","e","c","t","e","e">>,   \* accents dropped
            rssi |-> 0,
            confidence |-> "Aucune"]

(***************************************************************************)
(* locate_position                                                         *)
(***************************************************************************)
RECURSIVE NatText(_)
NatText(n) ==
    IF n < 10 THEN <<HexDigits[n + 1]>>
    ELSE NatText(n \div 10) \o <<HexDigits[(n % 10) + 1]>>

\* f"{x:.0f}%"
FormatPercent(x) ==
    LET n == RoundHalfEven(x)
    IN (IF n < 0 THEN <<"-">> \o NatText(-n) ELSE NatText(n)) \o <<"%">>

\* The 0.3 of `rssi_result['confidence'] > 0.3`
ConfidenceThreshold == <<3, 10>>

\* aps[:5]
FirstFive(aps) == SubSeq(aps, 1, IF Len(aps) < 5 THEN Len(aps) ELSE 5)

\* The result of STRATEGIE 1 for the matcher's zone m.
fingerprint_result(aps, m, clock) ==
    [success |-> TRUE,
     lat |-> m.lat,
     lon |-> m.lon,
     room |-> m.room,
     floor |-> m.floor,
     location |-> m.location,
     method |-> "RSSI Matching",
     confidence |-> FormatPercent(RatMul(m.confidence, RatInt(100))),
     matched_aps |-> m.matched_aps,
     details |-> MapSeq(FirstFive(aps),
                        LAMBDA ap : [mac |-> ap.mac, rssi |-> ap.rssi]),
     timestamp |-> clock]

\* The result of STRATEGIE 2 for the triangulator's answer c and the nearest-AP
\* estimator's answer r.
triangulation_result(c, r, clock) ==
    [success |-> TRUE,
     lat |-> c.lat,
     lon |-> c.lon,
     room |-> r.room,
     floor |-> r.floor,
     location |-> r.location,
     method |-> "Triangulation",
     confidence |-> FormatPercent(RatMin(RatMul(Rat(c.matched_aps, 3), RatInt(100)),
                                         RatInt(100))),
     matched_aps |-> c.matched_aps,
     details |-> c.details,
     timestamp |-> clock]

failure_result(error, clock) ==
    [success |-> FALSE, error |-> error, timestamp |-> clock]

\* The arbitration with the matcher accepted at a confidence of 0.3 or more.
arbitrate_at_threshold(aps, rssi_result, centroid_result, room_result, clock) ==
    IF rssi_result # None
       /\ ~RatLess(rssi_result[1].confidence, ConfidenceThreshold)
    THEN fingerprint_result(aps, rssi_result[1], clock)
    ELSE IF centroid_result # None
    THEN triangulation_result(centroid_result[1], room_result, clock)
    ELSE failure_result("Insufficient data", clock)

\* The arbitration of locate_position once the three estimators have answered.
arbitrate(aps, rssi_result, centroid_result, room_result, clock) ==
    IF rssi_result # None
       /\ RatLess(ConfidenceThreshold, rssi_result[1].confidence)
    THEN fingerprint_result(aps, rssi_result[1], clock)
    ELSE IF centroid_result # None
    THEN triangulation_result(centroid_result[1], room_result, clock)
    ELSE failure_result("Insufficient data", clock)

\* locate_position without its check for an empty observation list.
locate_position_unchecked(aps, data, dir, clock) ==
    LET rssi_result == simple_rssi_matching(aps, data)
    IN IF rssi_result.raised THEN
           [raised |-> TRUE, ret |-> None, calls |-> <<"simple_rssi_matching">>]
       ELSE
           [raised |-> FALSE,
            ret |-> arbitrate(aps, rssi_result.ret, triangulate(aps, dir),
                              locate_room(aps, dir), clock),
            calls |-> <<"simple_rssi_matching", "triangulate", "locate_room">>]

\* locate_position on the observations aps, the store data and the directory dir,
\* datetime.now() reading clock. The outcome also lists the estimators it called.
locate_position(aps, data, dir, clock) ==
    IF aps = <<>> THEN
        [raised |-> FALSE, ret |-> failure_result("No APs detected", clock),
         calls |-> <<>>]
    ELSE
        LET rssi_result == simple_rssi_matching(aps, data)
        IN IF rssi_result.raised THEN
               [raised |-> TRUE, ret |-> None,
                calls |-> <<"simple_rssi_matching">>]
           ELSE
               [raised |-> FALSE,
                ret |-> arbitrate(aps, rssi_result.ret, triangulate(aps, dir),
                                  locate_room(aps, dir), clock),
                calls |-> <<"simple_rssi_matching", "triangulate", "locate_room">>]

(***************************************************************************)
(* on_message and the WebSocket registry                                   *)
(***************************************************************************)
\* on_message runs on the thread that client.loop_start() starts.
MqttThread == "paho"

\* asyncio.create_task called on a thread: RuntimeError (no running event loop)
\* unless that thread is the one running the event loop.
create_task(thread) == IF thread = "event_loop" THEN Ok(TRUE) ELSE Raise

\* The loop `for ws in websocket_connections[:]` from connection i of the copy
\* on: a connection whose create_task raises is removed, the others are handed
\* the result.
RECURSIVE broadcast(_, _, _, _, _)
broadcast(copy, i, conns, delivered, thread) ==
    IF i > Len(copy) THEN [conns |-> conns, delivered |-> delivered]
    ELSE IF create_task(thread).raised THEN
        broadcast(copy, i + 1, SelectSeq(conns, LAMBDA w : w # copy[i]),
                  delivered, thread)
    ELSE broadcast(copy, i + 1, conns, Append(delivered, copy[i]), thread)

\* on_message for msg: what it read, what it computed, and the globals it leaves.
\* msg.kind is "not_json" (json.loads raises), "no_uplink" (no 'uplink_message'
\* key), "no_frm" (no 'frm_payload' key: KeyError) or "uplink".
on_message_run(msg, data, dir, conns, position, clock) ==
    LET quiet(outcome) ==
            [outcome |-> outcome, aps |-> <<>>, result |-> None,
             position |-> position, conns |-> conns, delivered |-> <<>>]
    IN IF msg.kind = "not_json" THEN quiet("error")
       ELSE IF msg.kind = "no_uplink" THEN quiet("ignored")
       ELSE IF msg.kind = "no_frm" THEN quiet("error")
       ELSE
           LET aps == decode_payload(msg.frm_payload).ret
               located == locate_position(aps, data, dir, clock)
               b == broadcast(conns, 1, conns, <<>>, MqttThread)
           IN IF aps = <<>> THEN quiet("no_aps")
              ELSE IF located.raised THEN
                  [outcome |-> "error", aps |-> aps, result |-> None,
                   position |-> position, conns |-> conns, delivered |-> <<>>]
              ELSE
                  [outcome |-> "broadcast", aps |-> aps,
                   result |-> Some(located.ret),
                   position |-> Some(located.ret),
                   conns |-> b.conns, delivered |-> b.delivered]

(***************************************************************************)
(* Inputs                                                                  *)
(***************************************************************************)
MaxRows == 2        \* rows in the table fingerprints
MaxAps == 2         \* 7-byte blocks in a frame, observations in a list
MaxLoads == 2       \* calls of load_database
MaxConns == 1       \* WebSocket clients
MaxTime == 1        \* clock readings 0 .. MaxTime

SeqsUpTo(S, n) == UNION {[1..k -> S] : k \in 0..n}

RECURSIVE Flatten(_)
Flatten(ss) == IF Len(ss) = 0 THEN <<>> ELSE ss[1] \o Flatten(Tail(ss))

MacBytesA == <<30, 146, 155, 232, 92, 217>>      \* 1e:92:9b:e8:5c:d9
MacBytesB == <<170, 187, 204, 221, 238, 255>>    \* aa:bb:cc:dd:ee:ff
MacBytesC == <<0, 0, 0, 0, 0, 1>>                \* 00:00:00:00:00:01
MacBytesZero == <<0, 0, 0, 0, 0, 0>>

MacA == JoinHex(MacBytesA)
MacB == JoinHex(MacBytesB)
MacC == JoinHex(MacBytesC)
MacBUpper == <<"A","A",":","B","B",":","C","C",":","D","D",":","E","E",":","F","F">>

\* Frames for decode_payload: blocks with a zero or non-zero address and an RSSI
\* byte on either side of the sign change, followed by 0, 1 or 6 stray bytes.
DecodeBlocks ==
    {MacBytesZero \o <<0>>, MacBytesZero \o <<191>>,
     MacBytesA \o <<191>>, MacBytesA \o <<7>>,
     MacBytesB \o <<128>>, MacBytesB \o <<127>>,
     MacBytesC \o <<0>>, MacBytesC \o <<255>>}

DecodeFrames ==
    {Flatten(bs) \o SubSeq(MacBytesA, 1, t) :
        bs \in SeqsUpTo(DecodeBlocks, MaxAps), t \in {0, 1, 6}}

\* What reaches decode_payload for a frame: its Base64 text, whole or damaged.
Damages == {"none", "nopad", "cut", "junk", "nonascii", "extra"}

Damaged(text, d) ==
    IF d = "nopad" THEN SelectSeq(text, LAMBDA c : c # PadSym)
    ELSE IF d = "cut" THEN SubSeq(text, 1, Len(text) - 1)
    ELSE IF d = "junk" THEN <<JunkSym>> \o text
    ELSE IF d = "nonascii" THEN Append(text, NonAsciiSym)
    ELSE IF d = "extra" THEN text \o <<0, 0>>
    ELSE text

\* Rows of the table fingerprints: [room, floor, location, lat, lon, mac, rssi]
\* (ssid and timestamp are stored and never read).
Row(room, floor, lat, lon, mac, rssi) ==
    [room |-> room, floor |-> floor,
     location |-> <<"S","a","l","l","e"," ">> \o room,
     lat |-> lat, lon |-> lon, mac |-> mac, rssi |-> rssi]

Room201 == <<"2","0","1">>
Room203 == <<"2","0","3">>
RoomB1 == <<"B","_","1">>
Floor2 == <<"2">>

Rows ==
    {Row(Room201, Floor2, Some(1), Some(2), Some(MacA), Some(-63)),
     Row(Room201, Floor2, Some(4), Some(2), Some(MacBUpper), Some(-70)),
     Row(Room203, Floor2, Some(4), Some(4), Some(MacA), Some(-67)),
     Row(RoomB1, Floor2, Some(4), Some(1), Some(MacA), Some(-65)),
     Row(Room203, Floor2, None, None, Some(MacB), Some(-60)),
     Row(Room201, Floor2, Some(1), Some(2), Some(MacA), None),
     Row(Room203, Floor2, Some(4), Some(4), None, Some(-80))}

\* The table, or None when the database has no table fingerprints.
Tables == {Some(rows) : rows \in SeqsUpTo(Rows, MaxRows)} \cup {None}

\* The tables the backend process is started on.
StartRows ==
    {Row(Room201, Floor2, Some(1), Some(2), Some(MacA), Some(-63)),
     Row(Room203, Floor2, None, None, Some(MacBUpper), Some(-72)),
     Row(RoomB1, Floor2, Some(4), Some(1), Some(MacA), Some(-65)),
     Row(Room203, Floor2, Some(4), Some(4), None, Some(-80))}

StartTables == {Some(rows) : rows \in SeqsUpTo(StartRows, MaxRows)} \cup {None}

\* Observation lists as decode_payload returns them.
Observations ==
    {[mac |-> MacA, rssi |-> -65], [mac |-> MacA, rssi |-> 7],
     [mac |-> MacA, rssi |-> 127], [mac |-> MacB, rssi |-> -65], [mac |-> MacB, rssi |-> -100],
     [mac |-> MacC, rssi |-> -65]}

\* RSSI values an observation is changed to.
OtherRssi == {-128, -100, -71, -70, -66, -64, -63, -60, 0, 127}

ObsLists == SeqsUpTo(Observations, MaxAps)

\* Uplinks the broker delivers.
UplinkBlocks ==
    {MacBytesZero \o <<0>>, MacBytesA \o <<191>>, MacBytesC \o <<7>>}

Messages ==
    {[kind |-> "not_json"], [kind |-> "no_uplink"], [kind |-> "no_frm"],
     [kind |-> "uplink", frm_payload |-> None]}
    \cup {[kind |-> "uplink", frm_payload |-> Some(B64Encode(Flatten(bs)))] :
            bs \in SeqsUpTo(UplinkBlocks, MaxAps)}
    \cup {[kind |-> "uplink",
           frm_payload |-> Some(B64Encode(MacBytesA \o <<191, 30>>))]}

(***************************************************************************)
(* The backend process                                                     *)
(***************************************************************************)
\* tools/auto_collect_TTN.py:48-54, the collector's globals before its script
\* runs.  pc is the statement its main thread executes next, lat_str and lon_str
\* are set_location's locals, inserted is what this run has INSERTed into table
\* fingerprints, and completed is the positions of the set_location calls that
\* assigned all five globals.
CollectorOff ==
    [pc |-> "off", current_room |-> None, current_floor |-> None,
     current_location |-> None, current_lat |-> None, current_lon |-> None,
     sample_count |-> 0, lat_str |-> <<>>, lon_str |-> <<>>,
     inserted |-> <<>>, completed |-> {}]

NoCall == [fn |-> "none"]
\* get_position, GET /api/position: a result record is never an empty dict, so
\* `if current_position` tests for None.
get_position(position) ==
    IF position # None THEN position[1]
    ELSE [success |-> FALSE, error |-> "No position data yet"]

NoLoad ==
    [table |-> None, raised |-> FALSE, data_before |-> <<>>, all_ok |-> TRUE]
NoMsg == [kind |-> "none", outcome |-> "none"]

InitGlobals ==
    /\ fingerprint_data = <<>>
    /\ ap_database = <<>>
    /\ current_position = None
    /\ websocket_connections = <<>>
    /\ ws_open = {}
    /\ mqtt_started = FALSE
    /\ now = 0
    /\ loads = 0
    /\ last_load = NoLoad
    /\ sent = <<>>
    /\ last_msg = NoMsg
    /\ call = NoCall
    /\ collector = CollectorOff

Init == db \in StartTables /\ InitGlobals

\* load_database(), as startup() calls it before it starts the MQTT client.
load_database ==
    /\ loads < MaxLoads
    /\ \E r \in {load_database_run(db, fingerprint_data, ap_database)} :
          /\ fingerprint_data' = r.data
          /\ ap_database' = r.dir
          /\ last_load' = [table |-> db, raised |-> r.raised,
                           data_before |-> fingerprint_data,
                           all_ok |-> last_load.all_ok /\ ~r.raised]
    /\ loads' = loads + 1
    /\ mqtt_started' = TRUE
    /\ UNCHANGED <<collector, db, current_position, websocket_connections, ws_open, now,
                   sent, last_msg, call>>

\* on_message(client, userdata, msg)
on_message(msg) ==
    /\ mqtt_started
    /\ \E r \in {on_message_run(msg, fingerprint_data, ap_database,
                                websocket_connections, current_position, now)} :
          /\ current_position' = r.position
          /\ websocket_connections' = r.conns
          /\ sent' = sent \o [i \in 1..Len(r.delivered) |->
                                [ws |-> r.delivered[i], result |-> r.result[1]]]
          /\ last_msg' = [kind |-> msg.kind, outcome |-> r.outcome,
                          aps |-> r.aps, result |-> r.result,
                          registered |-> websocket_connections,
                          delivered |-> r.delivered,
                          data |-> fingerprint_data, dir |-> ap_database]
    /\ UNCHANGED <<collector, db, fingerprint_data, ap_database, ws_open, mqtt_started,
                   now, loads, last_load, call>>

\* websocket_endpoint up to its receive loop: accept and register.
websocket_connect(ws) ==
    /\ ws \notin ws_open
    /\ ws_open' = ws_open \cup {ws}
    /\ websocket_connections' = Append(websocket_connections, ws)
    /\ UNCHANGED <<collector, db, fingerprint_data, ap_database, current_position,
                   mqtt_started, now, loads, last_load, sent, last_msg, call>>

\* websocket_endpoint's except clause: the client went away.
websocket_disconnect(ws) ==
    /\ ws \in ws_open
    /\ ws_open' = ws_open \ {ws}
    /\ websocket_connections' =
           SelectSeq(websocket_connections, LAMBDA w : w # ws)
    /\ UNCHANGED <<collector, db, fingerprint_data, ap_database, current_position,
                   mqtt_started, now, loads, last_load, sent, last_msg, call>>

\* tools/clean.py: DELETE FROM fingerprints WHERE lat, lon or rssi IS NULL (the
\* floor is never NULL here).
clean_db ==
    /\ db # None
    /\ \E i \in 1..Len(db[1]) :
          db[1][i].lat = None \/ db[1][i].lon = None \/ db[1][i].rssi = None
    /\ db' = Some(SelectSeq(db[1], LAMBDA row :
                     row.lat # None /\ row.lon # None /\ row.rssi # None))
    /\ UNCHANGED <<collector, fingerprint_data, ap_database, current_position,
                   websocket_connections, ws_open, mqtt_started, now, loads,
                   last_load, sent, last_msg, call>>

\* Time passes.
Tick ==
    /\ now < MaxTime
    /\ now' = now + 1
    /\ UNCHANGED <<collector, db, fingerprint_data, ap_database, current_position,
                   websocket_connections, ws_open, mqtt_started, loads,
                   last_load, sent, last_msg, call>>

Next ==
    \/ load_database
    \/ \E msg \in Messages : on_message(msg)
    \/ \E ws \in 1..MaxConns : websocket_connect(ws)
    \/ \E ws \in 1..MaxConns : websocket_disconnect(ws)
    \/ clean_db
    \/ Tick

Spec == Init /\ [][Next]_vars

(***************************************************************************)
(* decode_payload called on its own                                        *)
(***************************************************************************)
DecodeCall(frame, d) ==
    /\ call = NoCall
    /\ call' = [fn |-> "decode_payload", frame |-> frame, damage |-> d,
                arg |-> Some(Damaged(B64Encode(frame), d)),
                out |-> decode_payload(Some(Damaged(B64Encode(frame), d))),
                collector_out |->
                    collector_decode_payload(Some(Damaged(B64Encode(frame), d)))]
    /\ UNCHANGED <<collector, db, fingerprint_data, ap_database, current_position,
                   websocket_connections, ws_open, mqtt_started, now, loads,
                   last_load, sent, last_msg>>

DecodeNone ==
    /\ call = NoCall
    /\ call' = [fn |-> "decode_payload", frame |-> <<>>, damage |-> "None",
                arg |-> None, out |-> decode_payload(None),
                collector_out |-> collector_decode_payload(None)]
    /\ UNCHANGED <<collector, db, fingerprint_data, ap_database, current_position,
                   websocket_connections, ws_open, mqtt_started, now, loads,
                   last_load, sent, last_msg>>

InitDecode == db = None /\ InitGlobals

NextDecode ==
    \/ \E frame \in DecodeFrames, d \in Damages : DecodeCall(frame, d)
    \/ DecodeNone

SpecDecode == InitDecode /\ [][NextDecode]_vars

(***************************************************************************)
(* locate_position called on its own, on any store load_database leaves    *)
(***************************************************************************)
\* locate_position keeping its result in current_position, as on_message does.
LocateCall_storing(aps) ==
    /\ call = NoCall
    /\ call' = [fn |-> "locate_position", aps |-> aps,
                out |-> locate_position(aps, fingerprint_data, ap_database, now)]
    /\ current_position' =
           IF call'.out.raised THEN current_position ELSE Some(call'.out.ret)
    /\ UNCHANGED <<collector, db, fingerprint_data, ap_database, websocket_connections,
                   ws_open, mqtt_started, now, loads, last_load, sent, last_msg>>

LocateCall(aps) ==
    /\ call = NoCall
    /\ call' = [fn |-> "locate_position", aps |-> aps,
                out |-> locate_position(aps, fingerprint_data, ap_database, now)]
    /\ UNCHANGED <<collector, db, fingerprint_data, ap_database, current_position,
                   websocket_connections, ws_open, mqtt_started, now, loads,
                   last_load, sent, last_msg>>

\* The call under study is the last step of a run.
NextLocate ==
    \/ call = NoCall /\ load_database
    \/ \E aps \in ObsLists : LocateCall(aps)

InitLocate == db \in Tables /\ InitGlobals

SpecLocate == InitLocate /\ [][NextLocate]_vars

(***************************************************************************)
(* locate_position called twice on the same observations                   *)
(***************************************************************************)
\* The second call, made when the clock reads t.
LocateAgain(t) ==
    /\ call # NoCall
    /\ call.fn = "locate_position"
    /\ "again" \notin DOMAIN call
    /\ now' = t
    /\ call' = [fn |-> "locate_position", aps |-> call.aps, out |-> call.out,
                again |-> locate_position(call.aps, fingerprint_data,
                                          ap_database, t)]
    /\ UNCHANGED <<collector, db, fingerprint_data, ap_database, current_position,
                   websocket_connections, ws_open, mqtt_started, loads,
                   last_load, sent, last_msg>>

NextRelocate ==
    \/ call = NoCall /\ load_database
    \/ \E aps \in ObsLists : LocateCall(aps)
    \/ \E t \in now..MaxTime : LocateAgain(t)

InitRelocate == db \in StartTables /\ InitGlobals

SpecRelocate == InitRelocate /\ [][NextRelocate]_vars

\* ---------------------------------------------------------------------------
\* tools/auto_collect_TTN.py: the collection tool.  Its main thread prompts the
\* operator statement by statement while the paho thread started by
\* client.loop_start() runs on_message for every MQTT message.
\* ---------------------------------------------------------------------------

MaxCollected == 2
MaxPositions == 2

\* str.strip() on the prompts' answers: leading and trailing blanks go.
RECURSIVE py_lstrip(_)
py_lstrip(text) ==
    IF text # <<>> /\ text[1] = " " THEN py_lstrip(Tail(text)) ELSE text

RECURSIVE py_rstrip(_)
py_rstrip(text) ==
    IF text # <<>> /\ text[Len(text)] = " "
    THEN py_rstrip(SubSeq(text, 1, Len(text) - 1))
    ELSE text

py_strip(text) == py_rstrip(py_lstrip(text))

DecimalDigits == <<"0","1","2","3","4","5","6","7","8","9">>

RECURSIVE DecimalValue(_)
DecimalValue(text) ==
    IF text = <<>> THEN 0
    ELSE 10 * DecimalValue(SubSeq(text, 1, Len(text) - 1))
         + (CHOOSE d \in 1..10 : DecimalDigits[d] = text[Len(text)]) - 1

\* float(text) for the answers drawn here: a run of decimal digits is its
\* value, anything else (the empty answer included) raises ValueError.
py_float(text) ==
    IF text # <<>> /\ \A i \in 1..Len(text) : text[i] \in Range(DecimalDigits)
    THEN Ok(DecimalValue(text))
    ELSE Raise

\* save_fingerprints: one row per AP, tagged with the globals as they are now.
save_fingerprints(aps, c) ==
    [i \in 1..Len(aps) |->
        [room |-> c.current_room, floor |-> c.current_floor,
         location |-> c.current_location, lat |-> c.current_lat,
         lon |-> c.current_lon, mac |-> Some(aps[i].mac),
         rssi |-> Some(aps[i].rssi)]]

\* on_message of the collector: the APs it hands to save_fingerprints, none
\* when it returns early or its except clause catches.
collector_on_message_run(msg, c) ==
    IF c.current_room = None THEN <<>>
    ELSE IF msg.kind = "not_json" THEN <<>>
    ELSE IF msg.kind = "no_uplink" THEN <<>>
    ELSE IF msg.kind = "no_frm" THEN <<>>
    ELSE LET aps == collector_decode_payload(msg.frm_payload)
         IN IF aps.raised THEN <<>> ELSE aps.ret

RoomAnswers == {Room201, <<" ">> \o Room203}
FloorAnswers == {Floor2}
LatAnswers == {<<"1">>, <<"4", " ">>, <<"x">>}
LonAnswers == {<<"2">>, <<>>}
Commands == {"next", "quit", "other"}

\* The collector touches none of the backend's state.
CollectorIdle ==
    UNCHANGED <<db, fingerprint_data, ap_database, current_position,
                websocket_connections, ws_open, mqtt_started, now, loads,
                last_load, sent, last_msg, call>>

\* set_location, line 383
input_room(answer) ==
    /\ collector.pc = "room"
    /\ collector' = [collector EXCEPT !.current_room = Some(py_strip(answer)),
                                      !.pc = "floor"]
    /\ CollectorIdle

\* set_location, line 386
input_floor(answer) ==
    /\ collector.pc = "floor"
    /\ collector' = [collector EXCEPT !.current_floor = Some(py_strip(answer)),
                                      !.pc = "location"]
    /\ CollectorIdle

\* set_location, line 389
format_location ==
    /\ collector.pc = "location"
    /\ collector' =
         [collector EXCEPT
            !.current_location =
                Some(<<"S","a","l","l","e"," ">> \o collector.current_room[1]),
            !.pc = "lat"]
    /\ CollectorIdle

\* set_location, line 396
input_lat(answer) ==
    /\ collector.pc = "lat"
    /\ collector' = [collector EXCEPT !.lat_str = py_strip(answer),
                                      !.pc = "lon"]
    /\ CollectorIdle

\* set_location, line 397
input_lon(answer) ==
    /\ collector.pc = "lon"
    /\ collector' = [collector EXCEPT !.lon_str = py_strip(answer),
                                      !.pc = "parse_lat"]
    /\ CollectorIdle

\* set_location, line 401; a ValueError goes to the except clause, which
\* returns False, and the caller then leaves (exit() or break).
parse_lat ==
    /\ collector.pc = "parse_lat"
    /\ LET v == py_float(collector.lat_str)
       IN collector' =
            IF v.raised THEN [collector EXCEPT !.pc = "leaving"]
            ELSE [collector EXCEPT !.current_lat = Some(v.ret),
                                   !.pc = "parse_lon"]
    /\ CollectorIdle

\* set_location, lines 402-416: the last global is assigned, the sample
\* counter is reset and the call returns True.
parse_lon ==
    /\ collector.pc = "parse_lon"
    /\ LET v == py_float(collector.lon_str)
       IN collector' =
            IF v.raised THEN [collector EXCEPT !.pc = "leaving"]
            ELSE [collector EXCEPT
                    !.current_lon = Some(v.ret),
                    !.sample_count = 0,
                    !.completed =
                        @ \cup {[room |-> collector.current_room,
                                 floor |-> collector.current_floor,
                                 location |-> collector.current_location,
                                 lat |-> collector.current_lat,
                                 lon |-> Some(v.ret)]},
                    !.pc = "command"]
    /\ CollectorIdle

\* the main loop, lines 491-498
command(cmd) ==
    /\ collector.pc = "command"
    /\ cmd = "next" => Cardinality(collector.completed) < MaxPositions
    /\ collector' =
         [collector EXCEPT
            !.pc = IF cmd = "quit" THEN "leaving"
                   ELSE IF cmd = "next" THEN "room"
                   ELSE "command"]
    /\ CollectorIdle

\* client.loop_stop(), line 505, or the end of the process after exit()
loop_stop ==
    /\ collector.pc = "leaving"
    /\ collector' = [collector EXCEPT !.pc = "stopped"]
    /\ CollectorIdle

\* on_message on the paho thread, which runs from client.loop_start() (line
\* 480, before the first set_location) until the loop is stopped.  The callback
\* and the save it makes are taken as one step.
collector_on_message(msg) ==
    /\ collector.pc \notin {"off", "stopped"}
    /\ LET aps == collector_on_message_run(msg, collector)
       IN /\ Len(collector.inserted) + Len(aps) <= MaxCollected
          /\ collector' =
               IF aps = <<>> THEN collector
               ELSE [collector EXCEPT
                       !.inserted = @ \o save_fingerprints(aps, collector),
                       !.sample_count = @ + 1]
    /\ CollectorIdle

NextCollector ==
    \/ \E answer \in RoomAnswers : input_room(answer)
    \/ \E answer \in FloorAnswers : input_floor(answer)
    \/ format_location
    \/ \E answer \in LatAnswers : input_lat(answer)
    \/ \E answer \in LonAnswers : input_lon(answer)
    \/ parse_lat
    \/ parse_lon
    \/ \E cmd \in Commands : command(cmd)
    \/ loop_stop
    \/ \E msg \in Messages : collector_on_message(msg)

\* The script after init_db() and client.loop_start(): the table exists and is
\* empty, the globals are None and the first set_location is about to prompt.
InitCollector ==
    /\ db = Some(<<>>)
    /\ fingerprint_data = <<>>
    /\ ap_database = <<>>
    /\ current_position = None
    /\ websocket_connections = <<>>
    /\ ws_open = {}
    /\ mqtt_started = FALSE
    /\ now = 0
    /\ loads = 0
    /\ last_load = NoLoad
    /\ sent = <<>>
    /\ last_msg = NoMsg
    /\ call = NoCall
    /\ collector = [CollectorOff EXCEPT !.pc = "room"]

SpecCollector == InitCollector /\ [][NextCollector]_vars

(***************************************************************************)
(* Properties of decode_payload                                            *)
(***************************************************************************)
IsDecodeCall == call.fn = "decode_payload"

\* The value of a two-character lower-case hexadecimal text, -1 when a character
\* is no lower-case hexadecimal digit.
HexValue(c) ==
    IF \E i \in 1..16 : HexDigits[i] = c
    THEN (CHOOSE i \in 1..16 : HexDigits[i] = c) - 1
    ELSE -1

\* mac is the lower-case, colon-separated hexadecimal text of the 6 bytes.
IsMacTextOf(mac, bytes) ==
    /\ Len(mac) = 17
    /\ \A j \in 1..5 : mac[3 * j] = ":"
    /\ \A j \in 1..6 :
          /\ HexValue(mac[3 * j - 2]) >= 0
          /\ HexValue(mac[3 * j - 1]) >= 0
          /\ 16 * HexValue(mac[3 * j - 2]) + HexValue(mac[3 * j - 1]) = bytes[j]

\* The numbers of the 7-byte blocks of frame whose 6 address bytes are not all
\* zero, in frame order.
RealBlocks(frame) ==
    SelectSeq([i \in 1..(Len(frame) \div 7) |-> i],
              LAMBDA i : \E j \in 1..6 : frame[7 * (i - 1) + j] # 0)

\* C1: decode_payload never raises: it returns a list for every payload, and
\* the empty list whenever the Base64 step (or any other step) fails or the
\* decoded buffer's length is not a multiple of 7.
C1_DecodeNeverRaises ==
    IsDecodeCall =>
        LET buf == b64decode(call.arg)
        IN /\ ~call.out.raised
           /\ \A k \in 1..Len(call.out.ret) :
                 DOMAIN call.out.ret[k] = {"mac", "rssi"}
           /\ (buf.raised \/ Len(buf.ret) % 7 # 0) => call.out.ret = <<>>
           /\ (call.damage = "none" /\ Len(call.frame) % 7 # 0)
                 => call.out.ret = <<>>
           /\ call.damage \in {"nonascii", "None"} => call.out.ret = <<>>

\* A Base64 text that decodes to 8 bytes or more, not a multiple of 7, and whose
\* first block has a real address, was answered with the empty list.
C1_Witness ==
    /\ IsDecodeCall
    /\ call.arg # None
    /\ ~b64decode(call.arg).raised
    /\ Len(b64decode(call.arg).ret) > 7
    /\ Len(b64decode(call.arg).ret) % 7 # 0
    /\ \E j \in 1..6 : b64decode(call.arg).ret[j] # 0
    /\ call.out.ret = <<>>

\* C2: for a frame of 7*N bytes decode_payload returns, in frame order, one
\* observation per block whose address bytes are not all zero; its MAC is the
\* lower-case colon-separated hexadecimal text of the 6 address bytes in their
\* order, its RSSI the 7th byte read as a signed 8-bit value, within -128..127.
C2_DecodeBlocks ==
    (IsDecodeCall /\ call.damage = "none" /\ Len(call.frame) % 7 = 0) =>
        LET real == RealBlocks(call.frame)
            ret == call.out.ret
        IN /\ ~call.out.raised
           /\ Len(ret) = Len(real)
           /\ \A k \in 1..Len(ret) :
                 LET first == 7 * (real[k] - 1) + 1
                     b == call.frame[first + 6]
                 IN /\ IsMacTextOf(ret[k].mac, SubSeq(call.frame, first, first + 5))
                    /\ ret[k].rssi = (IF b < 128 THEN b ELSE b - 256)
                    /\ ret[k].rssi \in -128..127

\* A two-block frame whose first block is padding with a non-zero RSSI byte and
\* whose second block has an RSSI byte of 128 or more gave one observation.
C2_Witness ==
    /\ IsDecodeCall
    /\ call.damage = "none"
    /\ Len(call.frame) = 14
    /\ \A j \in 1..6 : call.frame[j] = 0
    /\ call.frame[7] # 0
    /\ call.frame[14] >= 128
    /\ Len(call.out.ret) = 1
    /\ call.out.ret[1].rssi < 0

(***************************************************************************)
(* Properties of locate_position                                           *)
(***************************************************************************)
IsLocateCall == call.fn = "locate_position"

\* What the matcher answers on the call's observations and store.
MatcherAnswer == simple_rssi_matching(call.aps, fingerprint_data)

\* The matcher returned a zone whose confidence is strictly above 0.3.
ZoneAboveThreshold(m) ==
    /\ ~m.raised
    /\ m.ret # None
    /\ 10 * m.ret[1].confidence[1] > 3 * m.ret[1].confidence[2]

\* Some observed AP has an entry in the AP directory.
ObservedInDirectory ==
    \E i \in 1..Len(call.aps) : Lower(call.aps[i].mac) \in DOMAIN ap_database

IsFailure(ret, error) ==
    /\ DOMAIN ret = {"success", "error", "timestamp"}
    /\ ret.success = FALSE
    /\ ret.error = error
    /\ ret.timestamp = now

\* C3: on every observation list and every store load_database can leave,
\* locate_position returns a result carrying 'success' and 'timestamp'; it
\* never raises.
C3_LocateNeverRaises ==
    IsLocateCall =>
        /\ ~call.out.raised
        /\ {"success", "timestamp"} \subseteq DOMAIN call.out.ret

\* C4: on the empty observation list locate_position returns the 'No APs
\* detected' failure with a timestamp and calls none of the matcher, the
\* triangulator and the nearest-AP estimator, whatever the store and directory.
C4_EmptyObservation ==
    (IsLocateCall /\ call.aps = <<>>) =>
        /\ ~call.out.raised
        /\ IsFailure(call.out.ret, "No APs detected")
        /\ call.out.calls = <<>>

\* The empty list was located on a store and a directory that are not empty.
C4_Witness ==
    /\ IsLocateCall
    /\ call.aps = <<>>
    /\ fingerprint_data # <<>>
    /\ DOMAIN ap_database # {}
    /\ ~call.out.raised
    /\ call.out.ret.success = FALSE

\* C5: on a non-empty observation list locate_position returns the fingerprinting
\* result, its position, labels and matched-AP count those of the matcher's zone,
\* if and only if the matcher returned a zone with a confidence strictly above
\* 0.3, whether or not the triangulator has a match.
C5_FingerprintIffAboveThreshold ==
    (IsLocateCall /\ call.aps # <<>>) =>
        LET m == MatcherAnswer
            fingerprinted ==
                /\ ~call.out.raised
                /\ call.out.ret.success
                /\ call.out.ret.method = "RSSI Matching"
        IN /\ fingerprinted <=> ZoneAboveThreshold(m)
           /\ fingerprinted =>
                 /\ call.out.ret.lat = m.ret[1].lat
                 /\ call.out.ret.lon = m.ret[1].lon
                 /\ call.out.ret.room = m.ret[1].room
                 /\ call.out.ret.floor = m.ret[1].floor
                 /\ call.out.ret.location = m.ret[1].location
                 /\ call.out.ret.matched_aps = m.ret[1].matched_aps
                 /\ call.out.ret.timestamp = now

\* A fingerprinting result was returned although the triangulator had a match
\* too, at a position other than the zone's.
C5_Witness ==
    /\ IsLocateCall
    /\ call.aps # <<>>
    /\ ~call.out.raised
    /\ call.out.ret.success
    /\ call.out.ret.method = "RSSI Matching"
    /\ triangulate(call.aps, ap_database) # None
    /\ triangulate(call.aps, ap_database)[1].lat # call.out.ret.lat

\* C6: on a non-empty observation list for which the matcher gives no zone above
\* the threshold, with an observed AP in the directory, locate_position returns
\* success with method 'Triangulation', the triangulator's position and the
\* nearest-AP estimator's room, floor and location.
C6_TriangulationFallback ==
    (/\ IsLocateCall
     /\ call.aps # <<>>
     /\ ~ZoneAboveThreshold(MatcherAnswer)
     /\ ObservedInDirectory) =>
        /\ ~call.out.raised
        /\ call.out.ret.success
        /\ call.out.ret.method = "Triangulation"
        /\ call.out.ret.lat = triangulate(call.aps, ap_database)[1].lat
        /\ call.out.ret.lon = triangulate(call.aps, ap_database)[1].lon
        /\ call.out.ret.room = locate_room(call.aps, ap_database).room
        /\ call.out.ret.floor = locate_room(call.aps, ap_database).floor
        /\ call.out.ret.location = locate_room(call.aps, ap_database).location

\* C7: on a non-empty observation list for which the matcher gives no zone above
\* the threshold, with no observed AP in the directory, locate_position returns
\* the 'Insufficient data' failure with a timestamp and no other field.
C7_InsufficientData ==
    (/\ IsLocateCall
     /\ call.aps # <<>>
     /\ ~ZoneAboveThreshold(MatcherAnswer)
     /\ ~ObservedInDirectory) =>
        /\ ~call.out.raised
        /\ IsFailure(call.out.ret, "Insufficient data")

(***************************************************************************)
(* Properties of the backend process                                       *)
(***************************************************************************)
\* C8: every uplink on_message handles ends with a timestamped result handed to
\* every registered WebSocket connection, a failure result like a success.
C8_EveryUplinkForwarded ==
    last_msg.kind = "uplink" =>
        /\ last_msg.outcome = "broadcast"
        /\ "timestamp" \in DOMAIN last_msg.result[1]
        /\ \A i \in 1..Len(last_msg.registered) :
              last_msg.registered[i] \in Range(last_msg.delivered)

\* The samples a table holds: its rows with the MAC in lower case.
SamplesOf(table) ==
    IF table = None THEN {}
    ELSE {[room |-> row.room, floor |-> row.floor, location |-> row.location,
           lat |-> row.lat, lon |-> row.lon, mac |-> Lower(row.mac[1]),
           rssi |-> row.rssi] : row \in {r \in Range(table[1]) : r.mac # None}}

\* C9: after any sequence of load_database calls the store and the directory
\* hold nothing that is absent from the table the most recent call read, and
\* both are empty when that table was empty or missing.
C9_LatestLoadOnly ==
    loads > 0 =>
        /\ \A i \in 1..Len(fingerprint_data) :
              fingerprint_data[i] \in SamplesOf(last_load.table)
        /\ \A mac \in DOMAIN ap_database :
              \E fp \in SamplesOf(last_load.table) : fp.mac = mac
        /\ last_load.table \in {None, Some(<<>>)} =>
              fingerprint_data = <<>> /\ DOMAIN ap_database = {}

\* C10: a locate_position call in the MQTT callback reads a complete snapshot:
\* the directory it reads is the one derived from the store it reads, never a
\* filled store with a directory that is not, or only partly, derived from it.
C10_CompleteSnapshot ==
    (last_msg.kind = "uplink" /\ last_msg.aps # <<>>) =>
        DOMAIN last_msg.dir =
            {last_msg.data[i].mac : i \in 1..Len(last_msg.data)}

(***************************************************************************)
(* Properties of repeated loads                                            *)
(***************************************************************************)
\* Two outcomes of locate_position agree: both raise, or both return the same
\* result.
SameOutcome(a, b) ==
    /\ a.raised = b.raised
    /\ ~a.raised => a.ret = b.ret

\* C11: after load_database has run twice on the same table, locate_position
\* returns on every observation list what it returns after the first run alone
\* (the clock reading being the same).
C11_SecondLoadChangesNothing ==
    (IsLocateCall /\ loads = 2) =>
        LET first == load_database_run(db, <<>>, <<>>)
        IN SameOutcome(call.out,
                       locate_position(call.aps, first.data, first.dir, now))

\* The samples of the store whose zone key is key, in store order.
ZoneSamples(key) == SelectSeq(fingerprint_data, LAMBDA fp : RoomKey(fp) = key)

\* The zone keys of the store in build order: by first sample.
ZoneKeys == FirstSeen(MapSeq(fingerprint_data, RoomKey), {})

\* The first zone, in build order, that has a sample of mac.
FirstZoneOf(mac) ==
    LET i == CHOOSE i \in 1..Len(ZoneKeys) :
                 /\ \E j \in 1..Len(ZoneSamples(ZoneKeys[i])) :
                       ZoneSamples(ZoneKeys[i])[j].mac = mac
                 /\ \A k \in 1..(i - 1) :
                       \A j \in 1..Len(ZoneSamples(ZoneKeys[k])) :
                          ZoneSamples(ZoneKeys[k])[j].mac # mac
    IN ZoneSamples(ZoneKeys[i])

\* C12: after load_database the directory has exactly one entry per AP of the
\* samples, carrying the mean latitude and longitude, the room, the floor and
\* the location of the first zone in build order that has the AP.
C12_DirectoryOfStore ==
    loads > 0 =>
        /\ DOMAIN ap_database =
               {fingerprint_data[i].mac : i \in 1..Len(fingerprint_data)}
        /\ \A mac \in DOMAIN ap_database :
              LET zone == FirstZoneOf(mac)
              IN /\ ap_database[mac].lat =
                        py_mean_float(MapSeq(zone, LAMBDA fp : fp.lat)).ret
                 /\ ap_database[mac].lon =
                        py_mean_float(MapSeq(zone, LAMBDA fp : fp.lon)).ret
                 /\ ap_database[mac].room = zone[1].room
                 /\ ap_database[mac].floor = zone[1].floor
                 /\ ap_database[mac].location = zone[Len(zone)].location

(***************************************************************************)
(* Properties of simple_rssi_matching                                      *)
(***************************************************************************)
\* The matcher ran: locate_position was called on a non-empty list.
IsMatcherCall == IsLocateCall /\ call.aps # <<>>

\* The APs of the observation, in the store's spelling.
ObservedMacs == {Lower(call.aps[i].mac) : i \in 1..Len(call.aps)}

\* The APs known to the zone key that are in the observation.
MatchedMacs(key) ==
    {ZoneSamples(key)[j].mac : j \in 1..Len(ZoneSamples(key))} \cap ObservedMacs

\* The key of the zone a best match names.
KeyOf(match) == match.room \o <<"_">> \o match.floor

\* C13: the matcher only returns a zone in which two or more of the zone's APs
\* are in the observation, so a fingerprinting result has matched_aps >= 2.
C13_TwoMatchedAps ==
    IsMatcherCall =>
        /\ (~MatcherAnswer.raised /\ MatcherAnswer.ret # None) =>
              MatcherAnswer.ret[1].matched_aps >= 2
        /\ (~call.out.raised /\ call.out.ret.success
            /\ call.out.ret.method = "RSSI Matching") =>
              call.out.ret.matched_aps >= 2

\* C13, as amended: the matcher only returns a zone in which one or more of the
\* zone's APs are in the observation, matched_aps being their number; it returns
\* none exactly when no zone has an AP in the observation; a fingerprinting
\* result has matched_aps >= 1.
C13_OneMatchedAp ==
    IsMatcherCall =>
        /\ (~MatcherAnswer.raised /\ MatcherAnswer.ret # None) =>
              /\ MatcherAnswer.ret[1].matched_aps >= 1
              /\ MatcherAnswer.ret[1].matched_aps =
                     Cardinality(MatchedMacs(KeyOf(MatcherAnswer.ret[1])))
        /\ (~MatcherAnswer.raised /\ MatcherAnswer.ret = None) <=>
              \A i \in 1..Len(ZoneKeys) : MatchedMacs(ZoneKeys[i]) = {}
        /\ (~call.out.raised /\ call.out.ret.success
            /\ call.out.ret.method = "RSSI Matching") =>
              call.out.ret.matched_aps >= 1

\* A fingerprinting result came from a zone with a single matched AP, another AP
\* of the zone being unobserved.
C13_Witness ==
    /\ IsMatcherCall
    /\ ~call.out.raised
    /\ call.out.ret.success
    /\ call.out.ret.method = "RSSI Matching"
    /\ call.out.ret.matched_aps = 1
    /\ \E j \in 1..Len(ZoneSamples(KeyOf(call.out.ret))) :
          ZoneSamples(KeyOf(call.out.ret))[j].mac \notin ObservedMacs

\* C14: every zone the matcher returns has a confidence between 0 and 1, both
\* included, whatever the observed and the recorded RSSI values.
C14_ConfidenceInUnitInterval ==
    (IsMatcherCall /\ ~MatcherAnswer.raised /\ MatcherAnswer.ret # None) =>
        /\ ~RatLess(MatcherAnswer.ret[1].confidence, RatInt(0))
        /\ ~RatLess(RatInt(1), MatcherAnswer.ret[1].confidence)

\* The APs known to the zone key.
KnownMacs(key) == {ZoneSamples(key)[j].mac : j \in 1..Len(ZoneSamples(key))}

\* The RSSI values recorded for mac in the zone key.
Recorded(key, mac) ==
    MapSeq(SelectSeq(ZoneSamples(key), LAMBDA fp : fp.mac = mac),
           LAMBDA fp : fp.rssi)

\* The matcher scores the zone key: an AP of it is observed and none of its
\* observed APs has a NULL recorded RSSI.
IsScored(key) ==
    /\ MatchedMacs(key) # {}
    /\ \A mac \in MatchedMacs(key) :
          \A j \in 1..Len(Recorded(key, mac)) : Recorded(key, mac)[j] # None

\* 100 - |observed RSSI - mean recorded RSSI| for a matched AP of the zone.
PerApScore(key, mac) ==
    RatSub(RatInt(100),
           RatAbs(RatSub(RatInt(DetectedRssi(call.aps, mac)),
                         Rat(SumSeq(MapSeq(Recorded(key, mac), LAMBDA v : v[1])),
                             Len(Recorded(key, mac))))))

RECURSIVE SumPerAp(_, _)
SumPerAp(key, macs) ==
    IF macs = {} THEN RatInt(0)
    ELSE LET mac == CHOOSE mac \in macs : TRUE
         IN RatAdd(PerApScore(key, mac), SumPerAp(key, macs \ {mac}))

\* The plain average of the per-AP scores of the zone's matched APs.
PlainAverage(key) ==
    RatDiv(SumPerAp(key, MatchedMacs(key)),
           RatInt(Cardinality(MatchedMacs(key))))

\* The final score simple_rssi_matching gives the zone key in the store data.
FinalScoreIn(data, key) ==
    LET z == zone_score(call.aps, match_rooms_data(data, key), 1, RatInt(0), 0)
    IN final_score(z.score, z.matches)

FinalScore(key) == FinalScoreIn(fingerprint_data, key)

\* C15: a zone's final score is the average of its per-AP scores times the
\* coverage factor 0.5 + 0.5 * (matched APs / APs known to the zone), so a zone
\* observed in part scores strictly less than its plain average.
C15_CoverageFactor ==
    IsMatcherCall =>
        \A i \in 1..Len(ZoneKeys) :
            IsScored(ZoneKeys[i]) =>
                LET key == ZoneKeys[i]
                    coverage ==
                        RatAdd(Rat(1, 2),
                               Rat(Cardinality(MatchedMacs(key)),
                                   2 * Cardinality(KnownMacs(key))))
                IN /\ FinalScore(key) = RatMul(PlainAverage(key), coverage)
                   /\ MatchedMacs(key) # KnownMacs(key) =>
                         RatLess(FinalScore(key), PlainAverage(key))

\* C15, as amended: a zone's final score is the plain average of the per-AP
\* scores of its matched APs, whatever part of its known APs was observed; the
\* confidence of the zone the matcher returns is that average over 100.
C15_PlainAverage ==
    IsMatcherCall =>
        /\ \A i \in 1..Len(ZoneKeys) :
              IsScored(ZoneKeys[i]) =>
                  FinalScore(ZoneKeys[i]) = PlainAverage(ZoneKeys[i])
        /\ (~MatcherAnswer.raised /\ MatcherAnswer.ret # None) =>
              MatcherAnswer.ret[1].confidence =
                  RatDiv(PlainAverage(KeyOf(MatcherAnswer.ret[1])), RatInt(100))

\* The matcher returned a zone scored on two matched APs with different per-AP
\* scores, and a zone observed in part was scored.
C15_Witness ==
    /\ IsMatcherCall
    /\ ~MatcherAnswer.raised
    /\ MatcherAnswer.ret # None
    /\ MatcherAnswer.ret[1].matched_aps = 2
    /\ \E a, b \in MatchedMacs(KeyOf(MatcherAnswer.ret[1])) :
          PerApScore(KeyOf(MatcherAnswer.ret[1]), a)
              # PerApScore(KeyOf(MatcherAnswer.ret[1]), b)

\* A zone with a matched AP and an AP that was not observed was scored.
PartlyObserved(key) ==
    IsScored(key) /\ MatchedMacs(key) # KnownMacs(key)

\* The store without the samples that the zone key has of unobserved APs.
WithoutUnobserved(key) ==
    SelectSeq(fingerprint_data,
              LAMBDA fp : RoomKey(fp) = key => fp.mac \in ObservedMacs)

\* C16: each AP known to a zone and absent from the observation lowers the
\* zone's score: the matched APs and their RSSI values being the same, the zone
\* scores strictly lower with its unobserved APs than without them.
C16_MissingApPenalty ==
    IsMatcherCall =>
        \A i \in 1..Len(ZoneKeys) :
            PartlyObserved(ZoneKeys[i]) =>
                RatLess(FinalScore(ZoneKeys[i]),
                        FinalScoreIn(WithoutUnobserved(ZoneKeys[i]), ZoneKeys[i]))

\* C16, as amended: an AP known to a zone and absent from the observation leaves
\* the zone's score as it is: the matched APs and their RSSI values being the
\* same, the zone scores the same with its unobserved APs as without them.
C16_MissingApIgnored ==
    IsMatcherCall =>
        \A i \in 1..Len(ZoneKeys) :
            PartlyObserved(ZoneKeys[i]) =>
                FinalScore(ZoneKeys[i]) =
                    FinalScoreIn(WithoutUnobserved(ZoneKeys[i]), ZoneKeys[i])

\* The matcher returned a zone that has an AP the observation lacks.
C16_Witness ==
    /\ IsMatcherCall
    /\ ~MatcherAnswer.raised
    /\ MatcherAnswer.ret # None
    /\ PartlyObserved(KeyOf(MatcherAnswer.ret[1]))

\* The place of the zone key in the matcher's iteration order.
ZoneIndex(key) == CHOOSE i \in 1..Len(ZoneKeys) : ZoneKeys[i] = key

\* C17: the zone the matcher returns has the maximum final score among the
\* scored zones, and among the zones sharing that maximum it is the first in
\* iteration order: every earlier zone scores strictly less.
C17_FirstMaximum ==
    (IsMatcherCall /\ ~MatcherAnswer.raised /\ MatcherAnswer.ret # None) =>
        LET best == KeyOf(MatcherAnswer.ret[1])
        IN /\ \E i \in 1..Len(ZoneKeys) : ZoneKeys[i] = best
           /\ IsScored(best)
           /\ \A i \in 1..Len(ZoneKeys) :
                 IsScored(ZoneKeys[i]) =>
                     ~RatLess(FinalScore(best), FinalScore(ZoneKeys[i]))
           /\ \A i \in 1..(ZoneIndex(best) - 1) :
                 IsScored(ZoneKeys[i]) =>
                     RatLess(FinalScore(ZoneKeys[i]), FinalScore(best))

\* The matcher returned the first of two zones that share the maximum score.
C17_Witness ==
    /\ IsMatcherCall
    /\ ~MatcherAnswer.raised
    /\ MatcherAnswer.ret # None
    /\ \E i \in 1..Len(ZoneKeys) :
          /\ i > ZoneIndex(KeyOf(MatcherAnswer.ret[1]))
          /\ IsScored(ZoneKeys[i])
          /\ FinalScore(ZoneKeys[i]) = FinalScore(KeyOf(MatcherAnswer.ret[1]))

\* The final score of the zone key on the observation list aps.
ScoreOn(aps, key) ==
    LET z == zone_score(aps, match_rooms_data(fingerprint_data, key), 1,
                        RatInt(0), 0)
    IN final_score(z.score, z.matches)

\* The mean RSSI recorded for mac in the zone key.
MeanRecorded(key, mac) ==
    Rat(SumSeq(MapSeq(Recorded(key, mac), LAMBDA v : v[1])),
        Len(Recorded(key, mac)))

\* Entry i of the observation is of a matched AP of the zone key and r is nearer
\* to the mean recorded for it, or as near, as the RSSI observed.
IsNearer(key, i, r) ==
    /\ IsScored(key)
    /\ Lower(call.aps[i].mac) \in MatchedMacs(key)
    /\ ~RatLess(RatAbs(RatSub(RatInt(call.aps[i].rssi),
                              MeanRecorded(key, Lower(call.aps[i].mac)))),
                RatAbs(RatSub(RatInt(r),
                              MeanRecorded(key, Lower(call.aps[i].mac)))))

\* The observation with the RSSI of entry i changed to r.
Changed(i, r) == [call.aps EXCEPT ![i] = [mac |-> call.aps[i].mac, rssi |-> r]]

\* C18: changing the RSSI observed for one matched AP to a value nearer to the
\* zone's mean recorded RSSI never lowers the zone's score.
C18_NearerNeverLower ==
    IsMatcherCall =>
        \A k \in 1..Len(ZoneKeys), i \in 1..Len(call.aps), r \in OtherRssi :
            IsNearer(ZoneKeys[k], i, r) =>
                ~RatLess(ScoreOn(Changed(i, r), ZoneKeys[k]),
                         ScoreOn(call.aps, ZoneKeys[k]))

\* A nearer RSSI for a matched AP raised the score of a zone with two matched
\* APs.
C18_Witness ==
    /\ IsMatcherCall
    /\ \E k \in 1..Len(ZoneKeys), i \in 1..Len(call.aps), r \in OtherRssi :
          /\ IsNearer(ZoneKeys[k], i, r)
          /\ Cardinality(MatchedMacs(ZoneKeys[k])) = 2
          /\ RatLess(ScoreOn(call.aps, ZoneKeys[k]),
                     ScoreOn(Changed(i, r), ZoneKeys[k]))

(***************************************************************************)
(* Properties of triangulate and locate_room                               *)
(***************************************************************************)
\* locate_position went on to triangulate and locate_room.
IsFallbackCall ==
    /\ IsLocateCall
    /\ \E i \in 1..Len(call.out.calls) : call.out.calls[i] = "triangulate"

\* The entries of the observation whose AP is in the directory.
InDirectory ==
    {i \in 1..Len(call.aps) : Lower(call.aps[i].mac) \in DOMAIN ap_database}

\* The sum over the entries I of weight * coordinate, the coordinate being the
\* latitude, the longitude or (field "one") 1.
RECURSIVE WeightedSum(_, _)
WeightedSum(I, field) ==
    IF I = {} THEN RatInt(0)
    ELSE LET i == CHOOSE i \in I : TRUE
             entry == ap_database[Lower(call.aps[i].mac)]
             coordinate == IF field = "lat" THEN entry.lat
                           ELSE IF field = "lon" THEN entry.lon
                           ELSE RatInt(1)
         IN RatAdd(RatMul(RatInt(WeightMilli(call.aps[i].rssi)), coordinate),
                   WeightedSum(I \ {i}, field))

\* C19: triangulate returns None exactly when no observed AP is in the
\* directory; otherwise lat and lon are the weighted sums of the directory
\* positions of the matched entries over the sum of their weights, and
\* matched_aps is the number of matched entries.
C19_WeightedCentroid ==
    IsFallbackCall =>
        LET t == triangulate(call.aps, ap_database)
        IN /\ t = None <=> InDirectory = {}
           /\ t # None =>
                 /\ t[1].success
                 /\ t[1].matched_aps = Cardinality(InDirectory)
                 /\ t[1].lat = RatDiv(WeightedSum(InDirectory, "lat"),
                                      WeightedSum(InDirectory, "one"))
                 /\ t[1].lon = RatDiv(WeightedSum(InDirectory, "lon"),
                                      WeightedSum(InDirectory, "one"))

\* triangulate matched two entries of different weights whose APs are at
\* different longitudes.
C19_Witness ==
    /\ IsFallbackCall
    /\ Cardinality(InDirectory) = 2
    /\ call.aps[1].rssi # call.aps[2].rssi
    /\ ap_database[Lower(call.aps[1].mac)].lon
           # ap_database[Lower(call.aps[2].mac)].lon
    /\ triangulate(call.aps, ap_database) # None

\* C20: locate_room reports the room, floor and location of the directory entry
\* of the strongest observed AP among those in the directory, whatever the RSSI
\* values, and the 'Unknown' room with confidence 'Aucune' only when no observed
\* AP is in the directory.
C20_StrongestKnownAp ==
    IsFallbackCall =>
        LET r == locate_room(call.aps, ap_database)
        IN /\ r.confidence = "Aucune" <=> InDirectory = {}
           /\ InDirectory # {} =>
                 \E i \in InDirectory :
                     /\ \A j \in InDirectory :
                           call.aps[j].rssi <= call.aps[i].rssi
                     /\ r.room = ap_database[Lower(call.aps[i].mac)].room
                     /\ r.floor = ap_database[Lower(call.aps[i].mac)].floor
                     /\ r.location = ap_database[Lower(call.aps[i].mac)].location

(***************************************************************************)
(* Properties of repeated calls of locate_position                         *)
(***************************************************************************)
\* A result without its timestamp.
WithoutTimestamp(ret) == [f \in DOMAIN ret \ {"timestamp"} |-> ret[f]]

\* Two outcomes of locate_position agree in every field but the timestamp.
SameButTimestamp(a, b) ==
    /\ a.raised = b.raised
    /\ ~a.raised => WithoutTimestamp(a.ret) = WithoutTimestamp(b.ret)

PositionOf(row) ==
    [room |-> row.room, floor |-> row.floor, location |-> row.location,
     lat |-> row.lat, lon |-> row.lon]

\* C22: every row the collector inserts carries a room, floor, location, lat
\* and lon that were all entered in one and the same completed set_location
\* call.
C22_RowsFromOneCall ==
    \A i \in 1..Len(collector.inserted) :
        PositionOf(collector.inserted[i]) \in collector.completed

\* ---------------------------------------------------------------------------
\* C23
\* ---------------------------------------------------------------------------

\* C23: every accepted connection that has not disconnected is registered, and
\* each result on_message computes is sent to every connection registered then:
\* broadcasting from the MQTT thread removes no connection.
C23_OpenConnectionsServed ==
    /\ ws_open \subseteq Range(websocket_connections)
    /\ last_msg.outcome = "broadcast" =>
          Range(last_msg.registered) \subseteq Range(last_msg.delivered)

\* ---------------------------------------------------------------------------
\* C24
\* ---------------------------------------------------------------------------

\* C24: once an uplink has been received, /api/position returns the result of
\* that uplink until the next one, success or failure alike.
C24_PositionIsLatestUplink ==
    last_msg.kind = "uplink" =>
        /\ last_msg.result # None
        /\ get_position(current_position) = last_msg.result[1]

\* ---------------------------------------------------------------------------
\* C25
\* ---------------------------------------------------------------------------

StoreMacs == {fingerprint_data[i].mac : i \in 1..Len(fingerprint_data)}

ObservedInStore ==
    \E i \in 1..Len(call.aps) : Lower(call.aps[i].mac) \in StoreMacs

MatcherFindsZone == ~MatcherAnswer.raised /\ MatcherAnswer.ret # None

ReturnsInsufficientData ==
    ~call.out.raised /\ IsFailure(call.out.ret, "Insufficient data")

\* C25: when every load_database call so far completed without error, the AP
\* ids of the directory are those of the stored samples; so a zone found by the
\* matcher means the triangulator matches too, and on a non-empty observation
\* locate_position returns 'Insufficient data' exactly when no observed AP
\* occurs in a sample.
C25_DirectoryCoversStore ==
    last_load.all_ok =>
        /\ DOMAIN ap_database = StoreMacs
        /\ IsMatcherCall =>
              /\ MatcherFindsZone => triangulate(call.aps, ap_database) # None
              /\ ReturnsInsufficientData <=> ~ObservedInStore

C25_Witness ==
    /\ IsMatcherCall
    /\ last_load.all_ok
    /\ loads = 2
    /\ Cardinality(StoreMacs) = 2
    /\ ~ObservedInStore
    /\ ReturnsInsufficientData

\* ---------------------------------------------------------------------------
\* C26
\* ---------------------------------------------------------------------------

\* The observation list with, of every AP, only its last entry.
RECURSIVE KeepLast(_)
KeepLast(aps) ==
    IF aps = <<>> THEN <<>>
    ELSE IF \E j \in 2..Len(aps) : Lower(aps[j].mac) = Lower(aps[1].mac)
         THEN KeepLast(Tail(aps))
         ELSE <<aps[1]>> \o KeepLast(Tail(aps))

HasRepeatedAp ==
    \E i, j \in 1..Len(call.aps) :
        i < j /\ Lower(call.aps[i].mac) = Lower(call.aps[j].mac)

IsResultOf(method) ==
    /\ ~call.out.raised
    /\ call.out.ret.success
    /\ call.out.ret.method = method

\* C26: the matcher answers as if only the last entry of each repeated AP had
\* been observed, so a fingerprinting result never counts more matched APs than
\* distinct observed APs; a Triangulation result counts and lists every entry
\* whose AP is in the directory, repeated ones included.
C26_RepeatedAps ==
    IsMatcherCall =>
        /\ MatcherAnswer = simple_rssi_matching(KeepLast(call.aps),
                                                fingerprint_data)
        /\ IsResultOf("RSSI Matching") =>
              call.out.ret.matched_aps <= Cardinality(ObservedMacs)
        /\ IsResultOf("Triangulation") =>
              /\ call.out.ret.matched_aps = Cardinality(InDirectory)
              /\ Len(call.out.ret.details) = Cardinality(InDirectory)

C26_Witness ==
    /\ IsMatcherCall
    /\ HasRepeatedAp
    /\ call.aps[1].rssi # call.aps[2].rssi
    /\ IsResultOf("Triangulation")
    /\ call.out.ret.matched_aps = 2
    /\ Cardinality(ObservedMacs) = 1
    /\ MatcherFindsZone

\* ---------------------------------------------------------------------------
\* C27
\* ---------------------------------------------------------------------------

DecodedBuffer == b64decode(call.arg)

\* The leading complete 7-byte blocks of buf.
CompleteBlocks(buf) == SubSeq(buf, 1, 7 * (Len(buf) \div 7))

\* C27: on a buffer whose length is a multiple of 7 the collector's
\* decode_payload returns what the backend's returns; on any other buffer it
\* returns the backend's decoding of the leading complete 7-byte blocks, the
\* trailing bytes being ignored.
C27_CollectorDecodesLikeBackend ==
    (IsDecodeCall /\ ~DecodedBuffer.raised) =>
        /\ ~call.collector_out.raised
        /\ Len(DecodedBuffer.ret) % 7 = 0 =>
              call.collector_out.ret = call.out.ret
        /\ call.collector_out.ret =
              decode_payload(Some(B64Encode(CompleteBlocks(DecodedBuffer.ret)))).ret

C27_Witness ==
    /\ IsDecodeCall
    /\ ~DecodedBuffer.raised
    /\ Len(DecodedBuffer.ret) % 7 # 0
    /\ call.out.ret = <<>>
    /\ Len(call.collector_out.ret) = 2

==============================================================================
